---- MODULE Spec2Model ----
(***************************************************************************)
(* Model of prettypyplot/plot.py: the wrapper functions savefig, legend,   *)
(* _opposite_side, activate_axis, colorbar and grid, together with the     *)
(* part of the wrapped library's state they read and write (figure size,   *)
(* tick/label side of every axis, grids, legends, the current axes).       *)
(***************************************************************************)
EXTENDS Integers, Sequences, FiniteSets, TLC

VARIABLES
    MODE,      \* __MODE  imported from prettypyplot.style
    STYLE,     \* __STYLE imported from prettypyplot.style
    figsize,   \* fig.get_size_inches(): <<width, height>>, each a rational
    nfail,     \* number of savefig calls that ended with an exception
    axes,      \* the axes of the figure: id -> record of the axes' state
    curAx,     \* plt.gca()
    last       \* what the most recent call did (arguments, calls made, error)

vars == <<MODE, STYLE, figsize, nfail, axes, curAx, last>>

\* ------------------------------------------------------------------ bounds
MaxLen == 3        \* longest file name drawn as fname
MaxFail == 2       \* savefig calls that may end with an exception
NumAxes == 2       \* axes the figure has before any colorbar is added
MaxColorbars == 1  \* colorbar calls
MaxPos == 2        \* longest list given to activate_axis

\* --------------------------------------------------------------- rationals
RECURSIVE GCD(_, _)
GCD(a, b) == IF b = 0 THEN a ELSE GCD(b, a % b)

\* a rational n/d in lowest terms
Rat(n, d) == LET g == GCD(n, d) IN <<n \div g, d \div g>>

RatMul(k, r) == Rat(k * r[1], r[2])

RatDiv(r, q) == Rat(r[1] * q[2], r[2] * q[1])

\* ------------------------------------------------------------ enumerations
Modes == {"default", "poster", "beamer"}

Styles == {"default", "minimal", "none"}

Sides == {"top", "bottom", "left", "right"}

\* --------------------------------------------------------------- file names
Chars == {"a", ".", "/"}

RECURSIVE StringsUpTo(_)
StringsUpTo(n) ==
    IF n = 0 THEN {<<>>}
    ELSE LET shorter == StringsUpTo(n - 1)
         IN shorter \cup {Append(s, c) : s \in shorter, c \in Chars}

FNames == StringsUpTo(MaxLen) \ {<<>>}

FNamesSmall == {<<"a">>, <<"a", ".", "a">>}

\* str.rfind, 1-based; 0 when the character does not occur
rfind(p, c) ==
    LET hits == {i \in 1..Len(p) : p[i] = c}
    IN IF hits = {} THEN 0 ELSE CHOOSE i \in hits : \A j \in hits : j <= i

\* os.path.splitext(p): <<root, ext>>; leading dots of the last component
\* do not start an extension
splitext(p) ==
    LET sepIndex == rfind(p, "/")
        dotIndex == rfind(p, ".")
    IN IF /\ dotIndex > sepIndex
          /\ \E i \in (sepIndex + 1)..(dotIndex - 1) : p[i] # "."
       THEN <<SubSeq(p, 1, dotIndex - 1), SubSeq(p, dotIndex, Len(p))>>
       ELSE <<p, <<>> >>

\* s[1:]
DropFirst(s) == IF s = <<>> THEN <<>> ELSE Tail(s)

PdfSuffix == <<".", "p", "d", "f">>

SaveNameAlways(fname, hasFormat) ==
    IF ~hasFormat THEN fname \o PdfSuffix ELSE fname

\* the file name savefig hands to plt.savefig
SaveName(fname, hasFormat) ==
    IF ~hasFormat
    THEN IF DropFirst(splitext(fname)[2]) = <<>>
         THEN fname \o PdfSuffix
         ELSE fname
    ELSE fname

\* ------------------------------------------------------------------ savefig
Scale == 3

Sizes == {<<Rat(4, 1), Rat(3, 1)>>, <<Rat(5, 2), Rat(2, 1)>>}

\* ax.get_position().bounds after tight_layout: fractional width and height
Fracs == {Rat(1, 2), Rat(4, 5)}

ScaleSize(s) == <<RatMul(Scale, s[1]), RatMul(Scale, s[2])>>

ModeSizePosterOnly(mode, s) ==
    IF mode = "poster" THEN ScaleSize(s) ELSE s

\* the figure size after the poster/beamer branch
ModeSize(mode, s) ==
    IF mode = "poster" THEN ScaleSize(s)
    ELSE IF mode = "beamer" THEN ScaleSize(s)
    ELSE s

\* the figure size after the use_canvas_size branch; s is the local figsize,
\* cur the size the figure has when the branch is reached
CanvasSize(use_canvas_size, s, cur, w, h) ==
    IF use_canvas_size THEN <<RatDiv(s[1], w), RatDiv(s[2], h)>> ELSE cur

Outcomes == {"ok", "layout_raises", "save_raises"}

savefig(fname, hasFormat, use_canvas_size, w, h, outcome) ==
    /\ outcome # "ok" => nfail < MaxFail
    /\ LET set_figsize == figsize
           atLayout == ModeSize(MODE, figsize)
           atSave == CanvasSize(use_canvas_size, figsize, atLayout, w, h)
           name == SaveName(fname, hasFormat)
       IN /\ figsize' = CASE outcome = "layout_raises" -> atLayout
                          [] outcome = "save_raises" -> atSave
                          [] OTHER -> set_figsize
          /\ last' = [op |-> "savefig", fname |-> fname,
                      hasFormat |-> hasFormat,
                      use_canvas_size |-> use_canvas_size,
                      w |-> w, h |-> h, before |-> set_figsize,
                      atLayout |-> atLayout,
                      laidOut |-> TRUE,
                      saveCalled |-> (outcome # "layout_raises"),
                      atSave |-> atSave, name |-> name,
                      err |-> IF outcome = "ok" THEN "none" ELSE outcome]
    /\ nfail' = IF outcome = "ok" THEN nfail ELSE nfail + 1
    /\ UNCHANGED <<MODE, STYLE, axes, curAx>>

\* -------------------------------------------------------------------- axes
\* a freshly created axes: x ticks and label at the bottom, y at the left
NewAxes == [xticks |-> "bottom", xlabel |-> "bottom",
            yticks |-> "left", ylabel |-> "left",
            grid |-> "none", axisbelow |-> FALSE,
            visible |-> TRUE, role |-> "plot"]

NoCall == [op |-> "none"]

\* ------------------------------------------------------------ Python values
\* a Python object passed as an argument: its type and its repr
PyStr(s) == [t |-> "str", v |-> s]

PyFalse == [t |-> "bool", v |-> "False"]

PyTrue == [t |-> "bool", v |-> "True"]

PyNone == [t |-> "NoneType", v |-> "None"]

PyInt0 == [t |-> "int", v |-> "0"]

PyList == [t |-> "list", v |-> "['top']"]

\* lists have no __hash__
Hashable(x) == x.t # "list"

IsNumber(x) == x.t \in {"bool", "int"}

PyNum(x) == IF x.v \in {"False", "0"} THEN 0 ELSE 1

\* x == y: bool is a subclass of int, so False == 0 and True == 1
PyEq(x, y) ==
    IF IsNumber(x) /\ IsNumber(y) THEN PyNum(x) = PyNum(y) ELSE x = y

\* bool(x)
Truthy(x) ==
    CASE IsNumber(x) -> PyNum(x) # 0
      [] x.t = "str" -> x.v # ""
      [] x.t = "NoneType" -> FALSE
      [] OTHER -> TRUE

\* --------------------------------------------------------- _opposite_side
Returned(val) == [err |-> "none", val |-> val]

Raised(err) == [err |-> err, val |-> "n/a"]

_opposite_sideCopyPaste(pos) ==
    IF pos = "top" THEN Returned("bottom")
    ELSE IF pos = "bottom" THEN Returned("top")
    ELSE IF pos = "right" THEN Returned("left")
    ELSE IF pos = "left" THEN Returned("left")
    ELSE Raised("ValueError")

_opposite_side(pos) ==
    IF pos = "top" THEN Returned("bottom")
    ELSE IF pos = "bottom" THEN Returned("top")
    ELSE IF pos = "right" THEN Returned("left")
    ELSE IF pos = "left" THEN Returned("right")
    ELSE Raised("ValueError")

\* --------------------------------------------------------------- tools.*
\* tools.gca(ax): the explicit axes, or the current axes when ax is None (0)
gca(ax) == IF ax = 0 THEN curAx ELSE ax

\* tools.parse_axes(*args, ax=ax): the axes to draw on
parse_axes(ax) == IF ax = 0 THEN curAx ELSE ax

\* ------------------------------------------------------------ activate_axis
\* axis.set_ticks_position(pos); axis.set_label_position(pos)
SetSideTicksOnly(a, pos) ==
    IF pos \in {"bottom", "top"}
    THEN [a EXCEPT !.xticks = pos]
    ELSE [a EXCEPT !.yticks = pos]

SetSide(a, pos) ==
    IF pos \in {"bottom", "top"}
    THEN [a EXCEPT !.xticks = pos, !.xlabel = pos]
    ELSE [a EXCEPT !.yticks = pos, !.ylabel = pos]

\* the loop over position, applied to one axes record
RECURSIVE MoveSides(_, _)
MoveSides(a, position) ==
    IF position = <<>> THEN [ax |-> a, err |-> "none"]
    ELSE IF Head(position) \notin {"bottom", "top", "left", "right"}
         THEN [ax |-> a, err |-> "ValueError"]
         ELSE MoveSides(SetSide(a, Head(position)), Tail(position))

\* activate_axis(position, ax) on the axes collection axs; position is the
\* list the argument was converted to
ActivateAxis(axs, position, ax) ==
    LET r == MoveSides(axs[ax], position)
    IN [axes |-> [axs EXCEPT ![ax] = r.ax], err |-> r.err]

BadSide == "diagonal"

PosValues == Sides \cup {BadSide}

RECURSIVE ListsUpTo(_)
ListsUpTo(n) ==
    IF n = 0 THEN {<<>>}
    ELSE LET shorter == ListsUpTo(n - 1)
         IN shorter \cup {Append(s, c) : s \in shorter, c \in PosValues}

\* position arguments: a single string or a list of strings
PositionsStr == {[isStr |-> TRUE, val |-> <<p>>] : p \in PosValues}

Positions ==
    PositionsStr \cup {[isStr |-> FALSE, val |-> l] : l \in ListsUpTo(MaxPos)}

AxArgs == {0} \cup (1..NumAxes)

activate_axis(position, ax) ==
    LET target == gca(ax)
        r == ActivateAxis(axes, position.val, target)
    IN /\ axes' = r.axes
       /\ last' = [op |-> "activate_axis", position |-> position,
                   ax |-> ax, target |-> target, err |-> r.err]
       /\ UNCHANGED <<MODE, STYLE, figsize, nfail, curAx>>

CallOppositeSide(pos) ==
    LET res == _opposite_side(pos)
        res2 == IF res.err = "none" THEN _opposite_side(res.val)
                ELSE Raised("not called")
    IN /\ last' = [op |-> "_opposite_side", arg |-> pos,
                   res |-> res, res2 |-> res2]
       /\ UNCHANGED <<MODE, STYLE, figsize, nfail, axes, curAx>>

\* ------------------------------------------------------------------- legend
OutsideValues ==
    {PyFalse, PyTrue, PyNone, PyInt0, PyList,
     PyStr("top"), PyStr("right"), PyStr("left"), PyStr("bottom"),
     PyStr("center")}

OutsideAllowed ==
    {PyFalse, PyStr("top"), PyStr("right"), PyStr("left"), PyStr("bottom")}

OutsideCheckNoBottom(outside) ==
    IF ~Hashable(outside) THEN "TypeError"
    ELSE IF ~\E y \in OutsideAllowed \ {PyStr("bottom")} : PyEq(outside, y)
         THEN "ValueError"
         ELSE "none"

\* outside not in {False, 'top', 'right', 'left', 'bottom'}: the set lookup
\* hashes outside first and compares with == afterwards
OutsideCheck(outside) ==
    IF ~Hashable(outside) THEN "TypeError"
    ELSE IF ~\E y \in OutsideAllowed : PyEq(outside, y)
         THEN "ValueError"
         ELSE "none"

\* leg.get_frame().set_linewidth(...)
FrameLinewidth(style) ==
    IF style = "minimal" THEN "0.0"
    ELSE IF style = "default" THEN "rcParams['axes.linewidth']"
    ELSE "unchanged"

\* kwargs.setdefault('loc', ...)
LegendLoc(outside) ==
    IF PyEq(outside, PyStr("top")) THEN "lower left"
    ELSE IF PyEq(outside, PyStr("bottom")) THEN "upper left"
    ELSE IF PyEq(outside, PyStr("right")) THEN "center left"
    ELSE IF PyEq(outside, PyStr("left")) THEN "center right"
    ELSE "best"

AxsArgs == {"None", "axes", "not axes"}

NoLegend == [loc |-> "n/a", linewidth |-> "n/a"]

legend(outside, ax, axs) ==
    LET chk == OutsideCheck(outside)
        target == parse_axes(ax)
        flip == Truthy(outside)
        moved == gca(0)
        r == IF flip
             THEN ActivateAxis(axes, <<_opposite_side(outside.v).val>>, moved)
             ELSE [axes |-> axes, err |-> "none"]
        leg == [loc |-> LegendLoc(outside),
                linewidth |-> FrameLinewidth(STYLE)]
    IN /\ UNCHANGED <<MODE, STYLE, figsize, nfail, curAx>>
       /\ IF chk # "none"
          THEN /\ axes' = axes
               /\ last' = [op |-> "legend", outside |-> outside, ax |-> ax,
                           target |-> 0, moved |-> 0, trace |-> <<>>,
                           leg |-> NoLegend, err |-> chk]
          ELSE IF axs = "not axes"
          THEN /\ axes' = axes
               /\ last' = [op |-> "legend", outside |-> outside, ax |-> ax,
                           target |-> target, moved |-> 0,
                           trace |-> <<"parse_axes">>,
                           leg |-> NoLegend, err |-> "TypeError"]
          ELSE /\ axes' = r.axes
               /\ last' = [op |-> "legend", outside |-> outside, ax |-> ax,
                           target |-> target,
                           moved |-> IF flip THEN moved ELSE 0,
                           trace |-> IF flip
                                     THEN <<"parse_axes", "activate_axis",
                                            "ax.legend">>
                                     ELSE <<"parse_axes", "ax.legend">>,
                           leg |-> leg, err |-> r.err]

\* ----------------------------------------------------------------- colorbar
ImKinds == {"axes", "ax", "neither"}

\* plt.colorbar(im, cax=cax, orientation=orientation) puts the ticks of the
\* long axis of cax at the right (vertical) or at the bottom (horizontal)
ColorbarAxes(orientation) ==
    IF orientation = "vertical"
    THEN [NewAxes EXCEPT !.yticks = "right", !.ylabel = "right",
                         !.role = "colorbar"]
    ELSE [NewAxes EXCEPT !.role = "colorbar"]

NumColorbars == Cardinality({a \in DOMAIN axes : axes[a].role = "colorbar"})

colorbar(imKind, owner, position, cur) ==
    /\ NumColorbars < MaxColorbars
    /\ LET orientation == IF position \in {"top", "bottom"}
                          THEN "horizontal" ELSE "vertical"
           ax == IF imKind \in {"axes", "ax"} THEN owner ELSE curAx
           cax == Len(axes) + 1
           cax_reset == Len(axes) + 2
           a1 == Append(axes, ColorbarAxes(orientation))
           r1 == ActivateAxis(a1, <<position>>, gca(cax))
           r2 == ActivateAxis(r1.axes,
                              <<_opposite_side(position).val>>, gca(ax))
           a3 == Append(r2.axes, [NewAxes EXCEPT !.visible = FALSE,
                                                 !.role = "spacer"])
       IN /\ axes' = a3
          /\ curAx' = IF cur = "cax" THEN cax
                      ELSE IF cur = "cax_reset" THEN cax_reset
                      ELSE curAx
          /\ last' = [op |-> "colorbar", imKind |-> imKind,
                      owner |-> owner, ax |-> ax,
                      position |-> position, cax |-> cax,
                      err |-> "none"]
    /\ UNCHANGED <<MODE, STYLE, figsize, nfail>>

\* --------------------------------------------------------------------- grid
grid(ax) ==
    LET target == parse_axes(ax)
    IN /\ axes' = IF STYLE = "default"
                  THEN [axes EXCEPT ![target].grid = "major and minor",
                                    ![target].axisbelow = TRUE]
                  ELSE axes
       /\ last' = [op |-> "grid", ax |-> ax, target |-> target,
                   err |-> "none"]
       /\ UNCHANGED <<MODE, STYLE, figsize, nfail, curAx>>


InitSave ==
    /\ MODE \in Modes
    /\ STYLE \in Styles
    /\ figsize \in Sizes
    /\ nfail = 0
    /\ axes = [a \in 1..NumAxes |-> NewAxes]
    /\ curAx \in 1..NumAxes
    /\ last = NoCall

NextSave ==
    \E fname \in FNamesSmall, hasFormat \in BOOLEAN,
       use_canvas_size \in BOOLEAN, w \in Fracs, h \in Fracs,
       outcome \in Outcomes :
        savefig(fname, hasFormat, use_canvas_size, w, h, outcome)

SpecSave == InitSave /\ [][NextSave]_vars

InitName ==
    /\ MODE \in Modes
    /\ STYLE = "default"
    /\ figsize = <<Rat(4, 1), Rat(3, 1)>>
    /\ nfail = 0
    /\ axes = [a \in 1..NumAxes |-> NewAxes]
    /\ curAx = 1
    /\ last = NoCall

NextName ==
    \E fname \in FNames, hasFormat \in BOOLEAN, use_canvas_size \in BOOLEAN :
        savefig(fname, hasFormat, use_canvas_size,
                Rat(4, 5), Rat(4, 5), "ok")

SpecName == InitName /\ [][NextName]_vars

InitAxes ==
    /\ MODE = "default"
    /\ STYLE \in Styles
    /\ figsize = <<Rat(4, 1), Rat(3, 1)>>
    /\ nfail = 0
    /\ axes = [a \in 1..NumAxes |-> NewAxes]
    /\ curAx \in 1..NumAxes
    /\ last = NoCall

NextAxes ==
    \/ \E outside \in OutsideValues, ax \in AxArgs, axs \in AxsArgs :
        legend(outside, ax, axs)
    \/ \E position \in PositionsStr, ax \in AxArgs :
        activate_axis(position, ax)
    \/ \E pos \in PosValues : CallOppositeSide(pos)

SpecAxes == InitAxes /\ [][NextAxes]_vars

InitActivate == InitAxes /\ STYLE = "default"

NextActivate ==
    \E position \in Positions, ax \in AxArgs : activate_axis(position, ax)

SpecActivate == InitActivate /\ [][NextActivate]_vars

NextGrid ==
    \/ \E ax \in AxArgs : grid(ax)
    \/ \E position \in PositionsStr, ax \in AxArgs :
        activate_axis(position, ax)

SpecGrid == InitAxes /\ [][NextGrid]_vars

InitColorbar == InitAxes /\ STYLE = "default"

NextColorbar ==
    \/ \E imKind \in ImKinds, owner \in 1..NumAxes, position \in Sides,
          cur \in {"unchanged", "cax", "cax_reset"} :
        colorbar(imKind, owner, position, cur)
    \/ \E position \in PositionsStr, ax \in AxArgs :
        activate_axis(position, ax)

SpecColorbar == InitColorbar /\ [][NextColorbar]_vars

\* ================================================================ properties
\* a = 3 * b for rationals <<numerator, denominator>>
Triple(a, b) == a[1] * b[2] = 3 * b[1] * a[2]

SizeIsTriple(a, s) == Triple(a[1], s[1]) /\ Triple(a[2], s[2])

\* a = 3 * b / q
TripleOver(a, b, q) == a[1] * q[1] * b[2] = 3 * b[1] * q[2] * a[2]

Enlarged == MODE \in {"poster", "beamer"}

\* the text after the last dot of the last path component is not empty, and
\* that dot is not one of the component's leading dots
HasExtension(p) ==
    \E i \in 1..Len(p) :
        /\ p[i] = "."
        /\ i < Len(p)
        /\ \A j \in (i + 1)..Len(p) : p[j] \notin {".", "/"}
        /\ \E j \in 1..(i - 1) :
            /\ p[j] # "."
            /\ \A k \in j..i : p[k] # "/"

OppositeOf == [top |-> "bottom", bottom |-> "top",
               left |-> "right", right |-> "left"]

\* ticks and label of the axis that side belongs to are at side
SideAt(a, side) ==
    IF side \in {"top", "bottom"}
    THEN a.xticks = side /\ a.xlabel = side
    ELSE a.yticks = side /\ a.ylabel = side

TickState(a) == <<a.xticks, a.xlabel, a.yticks, a.ylabel>>

FiveAllowed ==
    {PyFalse, PyStr("top"), PyStr("right"), PyStr("bottom"), PyStr("left")}

\* C1: in poster or beamer mode a savefig call that returns normally has the
\* figure at three times its size when tight_layout runs and leaves it at
\* the size it had before the call; a normally returning call never changes
\* the figure size.
C1_ScaledForLayoutThenRestored ==
    /\ [](last.op = "savefig" /\ last.err = "none" /\ Enlarged
            => /\ last.laidOut
               /\ SizeIsTriple(last.atLayout, last.before)
               /\ figsize = last.before)
    /\ [][last'.op = "savefig" /\ last'.err = "none"
            => figsize' = figsize]_vars

C1_Witness ==
    /\ last.op = "savefig"
    /\ last.err = "none"
    /\ MODE = "beamer"
    /\ last.use_canvas_size
    /\ last.atLayout # last.before
    /\ figsize = last.before

\* C2 (as stated): whatever the keyword arguments, a name without extension
\* is saved with '.pdf' appended and a name with extension is saved as is.
C2_SuffixWhateverKwargs ==
    last.op = "savefig" =>
        IF HasExtension(last.fname)
        THEN last.name = last.fname
        ELSE last.name = last.fname \o <<".", "p", "d", "f">>

\* C2 (amended): when no format keyword is passed, a name without extension
\* is saved with '.pdf' appended and a name with extension is saved as is;
\* when a format keyword is passed the name is saved as is.
C2_SuffixUnlessFormat ==
    last.op = "savefig" =>
        IF last.hasFormat \/ HasExtension(last.fname)
        THEN last.name = last.fname
        ELSE last.name = last.fname \o <<".", "p", "d", "f">>

C2_Witness ==
    /\ last.op = "savefig"
    /\ ~last.hasFormat
    /\ last.fname = <<"a", "/", ".">>
    /\ last.name = <<"a", "/", ".", ".", "p", "d", "f">>

C4_CompanionOppositeColorbarAtPosition ==
    last.op = "colorbar" /\ last.imKind \in {"axes", "ax"} =>
        /\ SideAt(axes[last.owner], OppositeOf[last.position])
        /\ SideAt(axes[last.cax], last.position)

C4_Witness ==
    /\ last.op = "colorbar"
    /\ last.imKind = "axes"
    /\ last.position = "left"
    /\ axes[last.owner].yticks = "right"
    /\ axes[last.owner].ylabel = "right"
    /\ axes[last.cax].yticks = "left"

\* C5: activate_axis called with a position that contains a value outside
\* the four sides raises an error and leaves the tick and label positions
\* of the axes as they were before the call.
C5_RejectionHasNoPartialEffect ==
    [][/\ last'.op = "activate_axis"
       /\ \E i \in 1..Len(last'.position.val) :
            last'.position.val[i] \notin Sides
       => /\ last'.err = "ValueError"
          /\ \A a \in DOMAIN axes : TickState(axes'[a]) = TickState(axes[a])
      ]_vars

\* C6: _opposite_side maps each of the four sides to a different side whose
\* opposite is the original side, and raises ValueError for any other input.
C6_OppositeIsInvolution ==
    last.op = "_opposite_side" =>
        IF last.arg \in Sides
        THEN /\ last.res.err = "none"
             /\ last.res.val \in Sides
             /\ last.res.val # last.arg
             /\ last.res2.err = "none"
             /\ last.res2.val = last.arg
        ELSE last.res.err = "ValueError" /\ last.res.val = "n/a"

C6_Witness ==
    /\ last.op = "_opposite_side"
    /\ last.arg = "left"
    /\ last.res.val = "right"
    /\ last.res2.val = "left"

\* C7: grid leaves the target axes with a major and a minor grid when the
\* style is 'default', with a major grid only when the style is 'none', and
\* without any grid for every other style.
C7_GridPerStyle ==
    last.op = "grid" =>
        axes[last.target].grid =
            CASE STYLE = "default" -> "major and minor"
              [] STYLE = "none" -> "major"
              [] OTHER -> "none"

\* C8: legend with outside one of the four sides moves ticks and labels to
\* the opposite side on the axes the legend is placed on (ax when given,
\* else the current axes) and on no other axes; with outside=False no tick
\* or label position changes.
C8_TicksMovedOnLegendAxesOnly ==
    [][last'.op = "legend" /\ last'.err = "none"
       => LET placed == IF last'.ax # 0 THEN last'.ax ELSE curAx
          IN IF last'.outside.t = "str"
             THEN /\ SideAt(axes'[placed], OppositeOf[last'.outside.v])
                  /\ \A a \in DOMAIN axes \ {placed} :
                        TickState(axes'[a]) = TickState(axes[a])
             ELSE \A a \in DOMAIN axes :
                        TickState(axes'[a]) = TickState(axes[a])
      ]_vars

\* C9: in poster or beamer mode the figure size at the moment the file is
\* written is 3*S without use_canvas_size and (3*S[0]/w, 3*S[1]/h) with it.
C9_SavedSizeKeepsEnlargement ==
    last.op = "savefig" /\ last.saveCalled /\ Enlarged =>
        IF last.use_canvas_size
        THEN /\ TripleOver(last.atSave[1], last.before[1], last.w)
             /\ TripleOver(last.atSave[2], last.before[2], last.h)
        ELSE SizeIsTriple(last.atSave, last.before)

\* C10: however savefig terminates, the figure size afterwards equals the
\* size before the call.
C10_SizeRestoredOnEveryExit ==
    last.op = "savefig" => figsize = last.before

====
